---- MODULE Spec2Model ----
(***************************************************************************)
(* Mapetite: the route-corridor detour engine of the App component.        *)
(*                                                                         *)
(* The model follows the second App component of src/unnamed/part_000      *)
(* (lines 437-1714): the React state of the component, the place_changed   *)
(* handler with its asynchronous destination pass (baseline route, sample  *)
(* searches, corridor filter, candidate selection, batched detour scoring) *)
(* and loadMorePlaces.  Every await of the source is a point where other   *)
(* handlers may run; the code between two awaits is one atomic action.     *)
(* State setters are applied in program order.                             *)
(***************************************************************************)
EXTENDS Integers, Sequences, FiniteSets, TLC

\* ---------------------------------------------------------------- bounds
\* destination selections (place_changed events) in one behaviour
MaxPasses == 2
\* POIs the search provider knows in the interactive world (ids 0..NPlaces)
NPlaces == 2
\* POIs the search provider knows in the batch world (ids 0..NBatchPlaces)
NBatchPlaces == 7
\* clicks on "Load more" in one behaviour
MaxLoadMore == 1
\* upstream requests that fail or return no route in one behaviour
MaxErrors == 1
\* POIs the search provider knows in the load-more world (ids 0..NMorePlaces)
NMorePlaces == 3
\* vertices of the polylines given to the sampler
MaxVertices == 4
\* records the search responses given to the aggregator are made of
MaxListings == 3
\* search responses given to the aggregator
MaxResponses == 2
\* corridor-filtered places given to the candidate selectors
MaxPois == 35
\* results in the result set the popup filters are applied to
MaxShown == 3
\* legs of a Directions route, steps of a leg
MaxLegs == 2
MaxLegSteps == 2

\* ------------------------------------------------------ program constants
CONCURRENCY == 5
MAX_DETOURS == 30
LOAD_MORE_SLICE == 10
\* Math.max(1, Math.min(6, Number(corridorMiles) || 1))
MIN_CORRIDOR_MILES == 1
MAX_CORRIDOR_MILES == 6
\* Math.max(0.001, totalKm / binCount): 0.001 km in metres
BIN_EPSILON_M == 1

\* ------------------------------------------------------------ environment
\* Date.now() - startTs at a completion, in ms (a reading is never smaller
\* than the one before)
ClockMs == {0, 2500}

\* Destinations the user can pick in the autocomplete box.
Dests == {1, 2}

\* Duration (s) of the direct route origin -> destination d.
BaseTime(d) == IF d = 1 THEN 1200 ELSE 900

\* Sum of the leg durations (s) of the first route origin -> id -> d.
\* Some detours cost nothing, some add 300 s, some beat the direct route.
DetourTime(id, d) ==
  LET c == (id + 2 * (d - 1)) % 3
  IN  BaseTime(d) + (IF c = 1 THEN 0 ELSE IF c = 2 THEN 300 ELSE -100)

\* The decoded overview polyline of the routes to d.  The world is a
\* straight road: a vertex is its position (km) along the road, and the
\* haversine distance of two vertices is the difference of their positions.
RoutePoints(d) == IF d = 1 THEN <<0, 6, 12>> ELSE <<0, 10, 20>>

\* A path is the polyline of the route to dest, directly (via = 0) or
\* through place via, with its decoded points.
NoPath == [dest |-> 0, via |-> 0, points |-> <<>>]
BasePath(d) == [dest |-> d, via |-> 0, points |-> RoutePoints(d)]
DetourPath(id, d) == [dest |-> d, via |-> id, points |-> RoutePoints(d)]

\* a baseline response whose polyline decodes to n < 2 points
ShortPath(d, n) == [dest |-> d, via |-> 0, points |-> SubSeq(RoutePoints(d), 1, n)]

\* A place is known to the model by the number of its record (the object a
\* search response carries); poi maps that number to the record's fields.
\* The records of the interactive and the batch world: one record per
\* place_id, place 0 is a record without geometry, place 4 lies 1.2 miles
\* off the direct route, the others within a mile.
MainWorld(n) ==
  [id \in 0..n |->
     [place_id |-> id, has |-> id # 0, lat |-> id, lng |-> id,
      alongM |-> 1000 * id,
      offsetM |-> IF id = 4 THEN 1931 ELSE 100 * id]]

\* The restaurants the provider lists near sample s when it knows n places.
Nearby(n, s) ==
  IF s = 1 THEN [j \in 1..n |-> j - 1]
  ELSE <<n - 1, n>>

\* Math.abs for the distance of two road positions
Abs(x) == IF x < 0 THEN -x ELSE x

\* ------------------------------------------------------------------ state
VARIABLES
  nPlaces,          \* size of the provider's world (fixed by Init)
  poi,              \* the provider's record of each place (fixed by Init)
  calc,             \* one run of the discovery functions on drawn inputs
  position,         \* 0 = null, 1 = known
  destination,      \* 0 = null, else the selected destination
  bestRouteCoords,  \* the displayed polyline
  baseRouteTimeSec,
  places,
  allPlaces,
  detourOptions,    \* the result set, a sequence of entries
  loadingDetours,
  loadingMore,
  corridorMiles,
  pass,             \* the async closure of each place_changed invocation
  lm,               \* the closure of the running loadMorePlaces call
  lmCount,          \* number of loadMorePlaces calls so far
  errors            \* number of failed upstream requests so far

vars == <<nPlaces, poi, calc, position, destination, bestRouteCoords, baseRouteTimeSec,
          places, allPlaces, detourOptions, loadingDetours, loadingMore,
          corridorMiles, pass, lm, lmCount, errors>>

Passes == 1..MaxPasses

Min(a, b) == IF a < b THEN a ELSE b
Max(a, b) == IF a > b THEN a ELSE b

Range(s) == {s[j] : j \in 1..Len(s)}

\* 1 mile = 1.60934 km, kept as an integer number of centimetres per mile
CM_PER_MILE == 160934

\* ---------------------------------------------------------------- helpers
\* p.place_id
place_id(id) == poi[id].place_id

\* place.geometry?.location?.lat / lng are both truthy: the record has a
\* geometry and neither coordinate is 0
HasLoc(id) == poi[id].has /\ poi[id].lat # 0 /\ poi[id].lng # 0

\* offsetKm of the closest projection of place id onto the polyline, in
\* metres; a route through the place passes at distance 0
OffsetM(id, path) == IF path.via = id THEN 0 ELSE poi[id].offsetM

\* alongKm of that projection, in metres from the first vertex
AlongM(id, path) == poi[id].alongM

\* samplingBoost ? 5 : (CORRIDOR_MILES === 1 ? 9 : 5)
sampleEveryKm(samplingBoost, miles) ==
  IF samplingBoost THEN 5
  ELSE IF Max(1, Min(6, IF miles = 0 THEN 1 ELSE miles)) = 1 THEN 9 ELSE 5

\* a sampling loop that keeps accumulating after it has pushed a sample
RECURSIVE sampleWalkNoReset(_, _, _, _, _)
sampleWalkNoReset(mainPath, everyKm, i, accumulatedKm, out) ==
  IF i > Len(mainPath) - 1 THEN out
  ELSE LET acc1 == accumulatedKm + Abs(mainPath[i + 1] - mainPath[i])
       IN  IF acc1 >= everyKm \/ i = 1
           THEN sampleWalkNoReset(mainPath, everyKm, i + 1, acc1, Append(out, i))
           ELSE sampleWalkNoReset(mainPath, everyKm, i + 1, acc1, out)

\* the sampling loop over the segments (a, b) = (i, i + 1) of the polyline
\* (i from 1): the segment's length is added to the accumulator and its
\* vertex a is pushed when the accumulator has reached the spacing, or at
\* the first segment; the accumulator then restarts from zero
RECURSIVE sampleWalk(_, _, _, _, _)
sampleWalk(mainPath, everyKm, i, accumulatedKm, out) ==
  IF i > Len(mainPath) - 1 THEN out
  ELSE LET acc1 == accumulatedKm + Abs(mainPath[i + 1] - mainPath[i])
       IN  IF acc1 >= everyKm \/ i = 1
           THEN sampleWalk(mainPath, everyKm, i + 1, 0, Append(out, i))
           ELSE sampleWalk(mainPath, everyKm, i + 1, acc1, out)

\* a sampler that trusts the loop to reach the end of the route
sampledCoordsNoLast(mainPath, everyKm) ==
  sampleWalk(mainPath, everyKm, 1, 0, <<>>)

\* sampledCoords: the indices of the sampled vertices; the last vertex is
\* always pushed (index 0 = undefined when the polyline is empty)
sampledCoords(mainPath, everyKm) ==
  Append(sampleWalk(mainPath, everyKm, 1, 0, <<>>), Len(mainPath))

\* Math.max(1, Math.min(6, Number(corridorMiles) || 1))
ClampMiles(m) ==
  Max(MIN_CORRIDOR_MILES, Min(MAX_CORRIDOR_MILES, IF m = 0 THEN 1 ELSE m))

\* distanceFromPointToPolylineKm(lat, lng, path) <= miles * 1.60934;
\* a polyline with fewer than 2 points is at distance Infinity.
WithinCorridor(id, path, miles) ==
  /\ Len(path.points) >= 2
  /\ OffsetM(id, path) * 100 <= ClampMiles(miles) * CM_PER_MILE

\* the corridor filter: places without lat/lng are dropped
onRouteFoodPlaces(sampledPlaces, path, miles) ==
  SelectSeq(sampledPlaces, LAMBDA id : HasLoc(id) /\ WithinCorridor(id, path, miles))

\* .sort((a,b)=>a.off-b.off): ascending by offset to the path and stable,
\* so the element at position i moves behind the elements with a smaller
\* offset and those with the same offset that stood before it
SortByOff(s, path) ==
  LET rank(i) == Cardinality({j \in 1..Len(s) :
                    \/ OffsetM(s[j], path) < OffsetM(s[i], path)
                    \/ OffsetM(s[j], path) = OffsetM(s[i], path) /\ j < i}) + 1
  IN  [k \in 1..Len(s) |-> s[CHOOSE i \in 1..Len(s) : rank(i) = k]]

\* candidates: closest to the path first, at most MAX_DETOURS of them
candidates(onRoute, path) ==
  LET sorted == SortByOff(SelectSeq(onRoute, HasLoc), path)
  IN  SubSeq(sorted, 1, Min(MAX_DETOURS, Len(sorted)))

\* totalKm: the length of the polyline, in metres
RECURSIVE totalM(_)
totalM(points) ==
  IF Len(points) < 2 THEN 0
  ELSE totalM(SubSeq(points, 1, Len(points) - 1))
       + 1000 * Abs(points[Len(points)] - points[Len(points) - 1])

\* binIdx = Math.min(binCount - 1, Math.max(0, Math.floor(alongKm / binSizeKm)))
\* with binCount = MAX_DETOURS and binSizeKm = Math.max(0.001, totalKm / binCount)
binIdx(alongMetres, totalMetres) ==
  Min(MAX_DETOURS - 1,
      Max(0, IF totalMetres >= BIN_EPSILON_M * MAX_DETOURS
             THEN (alongMetres * MAX_DETOURS) \div totalMetres
             ELSE alongMetres \div BIN_EPSILON_M))

\* a bin that takes the later of two places at the same offset
binBetterOrEqual(offsetKm, currentOffsetKm) == offsetKm <= currentOffsetKm

\* offsetKm < current.offsetKm
binBetter(offsetKm, currentOffsetKm) == offsetKm < currentOffsetKm

\* for (const place of onRouteFoodPlaces) { .. bins[binIdx] = { place, .. } }
\* a bin is <<>> (null) or holds one place
RECURSIVE fillBins(_, _, _)
fillBins(bins, onRoute, path) ==
  IF onRoute = <<>> THEN bins
  ELSE LET place   == Head(onRoute)
           idx     == binIdx(AlongM(place, path), totalM(path.points))
           current == bins[idx]
       IN  IF /\ HasLoc(place)
              /\ \/ current = <<>>
                 \/ binBetter(OffsetM(place, path), OffsetM(current[1], path))
           THEN fillBins([bins EXCEPT ![idx] = <<place>>], Tail(onRoute), path)
           ELSE fillBins(bins, Tail(onRoute), path)

\* new Array(binCount).fill(null), filled
bins(onRoute, path) ==
  fillBins([b \in 0..(MAX_DETOURS - 1) |-> <<>>], onRoute, path)

\* bins.filter(Boolean).map(b => b.place), from bin b upwards
RECURSIVE binPlaces(_, _)
binPlaces(filled, b) ==
  IF b > MAX_DETOURS - 1 THEN <<>>
  ELSE filled[b] \o binPlaces(filled, b + 1)

\* the binned selector of the first App component: one place per bin,
\* trimmed to MAX_DETOURS by offset if there were more
binCandidates(onRoute, path) ==
  LET list == binPlaces(bins(onRoute, path), 0)
  IN  IF Len(list) > MAX_DETOURS
      THEN SubSeq(SortByOff(list, path), 1, MAX_DETOURS)
      ELSE list

\* a comparator that forgets the totalTime tie-break
optionBeforeAddedOnly(a, b) == a.addedTime < b.addedTime

\* (a, b) => a.addedTime - b.addedTime || a.totalTime - b.totalTime  < 0
optionBefore(a, b) ==
  \/ a.addedTime < b.addedTime
  \/ a.addedTime = b.addedTime /\ a.totalTime < b.totalTime

\* Array.prototype.sort with that comparator (stable)
RECURSIVE SortOptions(_)
SortOptions(s) ==
  IF s = <<>> THEN <<>>
  ELSE LET e    == s[Len(s)]
           rest == SortOptions(SubSeq(s, 1, Len(s) - 1))
           at   == CHOOSE i \in 1..(Len(rest) + 1) :
                     /\ \A j \in 1..(i - 1) : ~optionBefore(e, rest[j])
                     /\ i <= Len(rest) => optionBefore(e, rest[i])
       IN  SubSeq(rest, 1, at - 1) \o <<e>> \o SubSeq(rest, at, Len(rest))

\* addedTime = Math.max(0, totalTime - baseTimeSec)
addedTime(totalTime, baseTimeSec) == Max(0, totalTime - baseTimeSec)

\* the entry { place, totalTime, addedTime, route } built from the first
\* route of a detour response; by = the pass that built it (0: load-more)
Option(id, d, baseTimeSec, p) ==
  [place     |-> id,
   totalTime |-> DetourTime(id, d),
   addedTime |-> addedTime(DetourTime(id, d), baseTimeSec),
   route     |-> DetourPath(id, d),
   by        |-> p]

\* a completion that publishes [...detourOptions, option] from the handler's
\* stale closure (detourOptions = [] when the pass reset it)
streamMergeStaleClosure(prev, options) ==
  SortOptions(<<options[Len(options)]>>)

\* setDetourOptions(prev => { merged = [...options]; merged.sort(..) })
streamMerge(prev, options) == SortOptions(options)

\* [...detourOptions, ...newOptions].sort(..) with the closure's detourOptions
loadMoreMerge(closureOptions, newOptions) ==
  SortOptions(closureOptions \o newOptions)

\* candidates.slice(i, i + CONCURRENCY), i counted from 0
batch(cands, i) == SubSeq(cands, i + 1, Min(i + CONCURRENCY, Len(cands)))

\* an aggregation in which a later record replaces the stored one
RECURSIVE dedupeAddLastWins(_, _)
dedupeAddLastWins(map, results) ==
  IF results = <<>> THEN map
  ELSE LET p == Head(results)
       IN  dedupeAddLastWins(
             IF \E j \in 1..Len(map) : place_id(map[j]) = place_id(p)
             THEN [j \in 1..Len(map) |->
                     IF place_id(map[j]) = place_id(p) THEN p ELSE map[j]]
             ELSE Append(map, p),
             Tail(results))

\* for (const p of results)
\*   if (!dedupeMap.has(p.place_id)) dedupeMap.set(p.place_id, p)
\* the Map's values in insertion order
RECURSIVE dedupeAdd(_, _)
dedupeAdd(map, results) ==
  IF results = <<>> THEN map
  ELSE LET p == Head(results)
       IN  dedupeAdd(
             IF \E j \in 1..Len(map) : place_id(map[j]) = place_id(p)
             THEN map
             ELSE Append(map, p),
             Tail(results))

\* the loading indicator
\* (etaSec -1: null)
LoadingOff ==
  [active |-> FALSE, total |-> 0, done |-> 0, etaSec |-> -1, label |-> "",
   found |-> 0]

\* done = Math.min((prev.done || 0) + 1, prev.total || n)
progressTick(prev, n) ==
  [prev EXCEPT !.done = Min(prev.done + 1, IF prev.total = 0 THEN n ELSE prev.total)]

\* the finally block of fetchOption, elapsedMs = Date.now() - startTs:
\*   elapsed = Math.max(0.001, elapsedMs / 1000); avg = elapsed / done
\*   remaining = Math.max(0, Math.round(avg * ((prev.total || n) - done)))
\* (Math.round(x) = floor(x + 1/2), with all terms over 2000 * done)
etaTick(prev, n, elapsedMs) ==
  LET total == IF prev.total = 0 THEN n ELSE prev.total
      done  == Min(prev.done + 1, total)
  IN  [prev EXCEPT
         !.done = done,
         !.etaSec = Max(0, (2 * Max(1, elapsedMs) * (total - done) + 1000 * done)
                             \div (2000 * done))]

IdlePass ==
  [pc |-> "idle", loc |-> 0, corridorMiles |-> 0, baseTimeSec |-> 0,
   mainPath |-> NoPath, k |-> 0, dedupeMap |-> <<>>, candidates |-> <<>>,
   i |-> 0, inflight |-> {}, options |-> <<>>,
   \* the sampled vertices and the positions in that list whose search
   \* request is pending (k is the last position requested)
   samples |-> <<>>, searching |-> {},
   \* history, read by the properties only: the candidates whose request has
   \* settled, those whose request failed, the older passes that had
   \* detour requests pending when this pass was selected, the sample
   \* positions whose search request has settled and those whose request
   \* failed, and the clock reading (ms since the scoring began) of the
   \* last completion
   settled |-> {}, failed |-> {}, overtook |-> {}, searched |-> {},
   elapsedMs |-> 0,
   skipped |-> {}]

IdleLm ==
  [pc |-> "idle", destination |-> 0, detourOptions |-> <<>>,
   baseRouteTimeSec |-> 0, queue |-> <<>>, newOptions |-> <<>>]

\* the discovery functions have not been run
IdleCalc == [pc |-> "idle"]

\* ------------------------------------------------------------------- Init
InitState ==
  /\ position = 0
  /\ destination = 0
  /\ bestRouteCoords = NoPath
  /\ baseRouteTimeSec = 0
  /\ places = <<>>
  /\ allPlaces = <<>>
  /\ detourOptions = <<>>
  /\ loadingDetours = LoadingOff
  /\ loadingMore = FALSE
  /\ corridorMiles = 1
  /\ pass = [p \in Passes |-> IdlePass]
  /\ lm = IdleLm
  /\ lmCount = 0
  /\ errors = 0

Init ==
  /\ nPlaces = NPlaces
  /\ poi = MainWorld(nPlaces)
  /\ calc = IdleCalc
  /\ InitState

\* ---------------------------------------------------------------- actions
\* getCurrentPosition callback (real or fallback position)
GeoPosition ==
  /\ position = 0
  /\ position' = 1
  /\ UNCHANGED <<nPlaces, poi, calc, destination, bestRouteCoords, baseRouteTimeSec, places,
                 allPlaces, detourOptions, loadingDetours, loadingMore,
                 corridorMiles, pass, lm, lmCount, errors>>

\* place_changed with a location: setDestination, then the async pass up
\* to its first await (the baseline route request)
PlaceChanged(p, d) ==
  /\ pass[p].pc = "idle"
  /\ \A q \in Passes : q < p => pass[q].pc # "idle"
  /\ destination' = d
  /\ IF position = 0
     THEN /\ pass' = [pass EXCEPT ![p] = [@ EXCEPT !.pc = "aborted", !.loc = d]]
          /\ UNCHANGED loadingDetours
     ELSE /\ loadingDetours' = [active |-> TRUE, total |-> 0, done |-> 0,
                                etaSec |-> -1,
                                label |-> "Calculating route...", found |-> 0]
          /\ pass' = [pass EXCEPT ![p] =
               [@ EXCEPT !.pc = "baseline", !.loc = d,
                         !.corridorMiles = corridorMiles,
                         !.overtook = {q \in Passes : /\ pass[q].pc = "scoring"
                                                      /\ pass[q].inflight # {}}]]
  /\ UNCHANGED <<nPlaces, poi, calc, position, bestRouteCoords, baseRouteTimeSec, places,
                 allPlaces, detourOptions, loadingMore, corridorMiles, lm, lmCount, errors>>

\* a discovery that starts the searches of all samples at once
firstSearchAll(samples) == 1..Len(samples)

\* for (const [sLat, sLng] of sampledCoords) { await axios.get(url) ... }:
\* the positions requested when the loop starts
firstSearch(samples) == {1}

\* and those requested once the request for position s has settled
nextSearch(samples, s) == IF s < Len(samples) THEN {s + 1} ELSE {}

\* a search without the catch: the rejection ends the async pass
catchSampleErrorRethrows(me) == [me EXCEPT !.pc = "crashed"]

\* catch (e) { console.error(..) } around one sample's search: the closure
\* of the pass stays as it is and the loop goes on
catchSampleError(me) == me

\* responses that carry what was asked for
OkResponses == {"route", "ok"}

\* the baseline route request of pass p settles; the pass runs on to its
\* next await (the first search request) or to its end
BaseRouteSettle(p, resp) ==
  /\ pass[p].pc = "baseline"
  /\ errors' = IF resp \in OkResponses THEN errors ELSE errors + 1
  /\ resp \in OkResponses \/ errors < MaxErrors
  /\ LET me == pass[p]
         d  == me.loc
     IN
     CASE resp = "error" ->
            \* axios rejects, or data.routes is missing: the catch block
            /\ loadingDetours' = LoadingOff
            /\ pass' = [pass EXCEPT ![p] = [me EXCEPT !.pc = "failed"]]
            /\ UNCHANGED <<bestRouteCoords, baseRouteTimeSec, places, detourOptions>>
       [] resp = "noroute" ->
            \* routes = []: mainRoute is undefined, the try block completes
            \* with a baseline of 0, and decoding mainRoute.overview_polyline
            \* throws outside the try: the async function rejects
            /\ baseRouteTimeSec' = 0
            /\ pass' = [pass EXCEPT ![p] = [me EXCEPT !.pc = "crashed"]]
            /\ UNCHANGED <<bestRouteCoords, places, detourOptions, loadingDetours>>
       [] OTHER ->
            \* a first route with legs; its polyline may decode to fewer
            \* than 2 points, which the code does not check
            LET path    == CASE resp = "onepoint" -> ShortPath(d, 1)
                             [] resp = "nopoints" -> ShortPath(d, 0)
                             [] OTHER -> BasePath(d)
                samples == sampledCoords(path.points,
                                         sampleEveryKm(FALSE, me.corridorMiles))
            IN
            \* an empty points string is falsy: nothing is drawn
            /\ bestRouteCoords' = IF path.points # <<>> THEN path
                                  ELSE bestRouteCoords
            /\ baseRouteTimeSec' = BaseTime(d)
            /\ places' = <<>>
            /\ detourOptions' = <<>>
            /\ loadingDetours' =
                 [loadingDetours EXCEPT !.active = TRUE,
                                        !.total = Len(samples),
                                        !.done = 0,
                                        !.label = "Finding restaurants along your route...",
                                        !.found = 0]
            /\ pass' = [pass EXCEPT ![p] =
                 IF path.points = <<>>
                 THEN \* the only sample is undefined: destructuring it
                      \* throws and the async function rejects
                      [me EXCEPT !.pc = "crashed", !.baseTimeSec = BaseTime(d),
                                 !.mainPath = path, !.samples = samples]
                 ELSE [me EXCEPT !.pc = "sampling", !.baseTimeSec = BaseTime(d),
                                 !.mainPath = path, !.samples = samples,
                                 !.searching = firstSearch(samples), !.k = 1]]
  /\ UNCHANGED <<nPlaces, poi, calc, position, destination, allPlaces, loadingMore,
                 corridorMiles, lm, lmCount>>

\* the end of a pass: options.sort, setDetourOptions(options), hide the
\* overlay, draw the best route
FinishDetours(options) == SortOptions(options)

\* the search request for position s of the sample list of pass p settles;
\* after the last sample the pass filters, selects and issues its first
\* batch
SearchSettle(p, s, resp) ==
  /\ pass[p].pc = "sampling"
  /\ s \in pass[p].searching
  /\ errors' = IF resp \in OkResponses THEN errors ELSE errors + 1
  /\ resp \in OkResponses \/ errors < MaxErrors
  /\ LET ok      == resp = "ok"
         me      == IF ok THEN pass[p] ELSE catchSampleError(pass[p])
         map1    == IF ok
                    THEN dedupeAdd(me.dedupeMap, Nearby(nPlaces, me.samples[s]))
                    ELSE me.dedupeMap
         ld1     == [progressTick(loadingDetours, Len(me.samples))
                       EXCEPT !.found = Len(map1)]
         pending == (me.searching \ {s}) \cup nextSearch(me.samples, s)
         me1     == [me EXCEPT !.dedupeMap = map1,
                               !.searching = pending,
                               !.k = Max(@, s + Cardinality(nextSearch(me.samples, s))),
                               !.searched = @ \cup {s},
                               !.skipped = IF ok THEN @ ELSE @ \cup {s}]
         onRoute == onRouteFoodPlaces(map1, me.mainPath, me.corridorMiles)
         cands   == candidates(onRoute, me.mainPath)
     IN
     IF me.pc # "sampling" \/ pending # {}
     THEN /\ pass' = [pass EXCEPT ![p] = me1]
          /\ loadingDetours' = ld1
          /\ UNCHANGED <<places, allPlaces, detourOptions>>
     ELSE /\ places' = onRoute
          /\ allPlaces' = onRoute
          /\ IF cands = <<>>
             THEN /\ detourOptions' = FinishDetours(<<>>)
                  /\ loadingDetours' = LoadingOff
                  /\ pass' = [pass EXCEPT ![p] = [me1 EXCEPT !.pc = "done"]]
             ELSE /\ loadingDetours' =
                       [active |-> TRUE, total |-> Len(cands), done |-> 0,
                        etaSec |-> -1,
                        label |-> "Scoring fastest detours...", found |-> ld1.found]
                  /\ pass' = [pass EXCEPT ![p] =
                       [me1 EXCEPT !.pc = "scoring",
                                   !.candidates = cands, !.i = 0,
                                   !.inflight = Range(batch(cands, 0))]]
                  /\ UNCHANGED detourOptions
  /\ UNCHANGED <<nPlaces, poi, calc, position, destination, bestRouteCoords, baseRouteTimeSec,
                 loadingMore, corridorMiles, lm, lmCount>>

\* a fetchOption without the catch: the rejection reaches Promise.all and
\* the async pass dies with it
catchErrorRethrows(me) == [me EXCEPT !.pc = "crashed"]

\* catch (error) { console.error(..) }: a failed detour request leaves the
\* closure of the pass as it is, and fetchOption's promise still resolves
catchError(me) == me

\* a worker pool instead of batches: every settlement starts the next
\* candidate that has not been requested yet
nextRequestsPool(cands, i, pending) ==
  [i |-> i + 1,
   inflight |-> pending \cup (IF i + CONCURRENCY + 1 <= Len(cands)
                              THEN {cands[i + CONCURRENCY + 1]} ELSE {})]

\* for (i = 0; i < candidates.length; i += CONCURRENCY)
\*   await Promise.all(batch.map(fetchOption))
\* the loop position and the pending requests once a request has settled
\* and `pending` of its batch remain
nextRequests(cands, i, pending) ==
  IF pending # {} THEN [i |-> i, inflight |-> pending]
  ELSE IF i + CONCURRENCY < Len(cands)
       THEN [i |-> i + CONCURRENCY,
             inflight |-> Range(batch(cands, i + CONCURRENCY))]
       ELSE [i |-> i + CONCURRENCY, inflight |-> {}]

\* fetchOption: the detour request for candidate id of pass p settles; when
\* it is the last of its batch Promise.all resolves and the loop goes on
DetourSettle(p, id, resp) ==
  /\ pass[p].pc = "scoring"
  /\ id \in pass[p].inflight
  /\ errors' = IF resp \in OkResponses THEN errors ELSE errors + 1
  /\ resp \in OkResponses \/ errors < MaxErrors
  /\ \E elapsedMs \in {ms \in ClockMs : ms >= pass[p].elapsedMs} :
     LET ok       == resp = "route"
         me       == IF ok THEN pass[p] ELSE catchError(pass[p])
         options1 == IF ok
                     THEN Append(me.options, Option(id, me.loc, me.baseTimeSec, p))
                     ELSE me.options
         shown1   == IF ok THEN streamMerge(detourOptions, options1) ELSE detourOptions
         ld1      == etaTick(loadingDetours, Len(me.candidates), elapsedMs)
         nxt      == nextRequests(me.candidates, me.i, me.inflight \ {id})
         me1      == [me EXCEPT !.options = options1,
                                !.settled = @ \cup {id},
                                !.failed = IF ok THEN @ ELSE @ \cup {id},
                                !.elapsedMs = elapsedMs,
                                !.i = nxt.i, !.inflight = nxt.inflight]
     IN
     IF me.pc # "scoring" \/ nxt.inflight # {}
     THEN \* requests are pending: the pass waits for them
          /\ pass' = [pass EXCEPT ![p] = me1]
          /\ detourOptions' = shown1
          /\ loadingDetours' = ld1
          /\ UNCHANGED bestRouteCoords
     ELSE \* the last batch is complete: the end of the pass
          LET final == FinishDetours(options1) IN
          /\ pass' = [pass EXCEPT ![p] = [me1 EXCEPT !.pc = "done", !.options = final]]
          /\ detourOptions' = final
          /\ loadingDetours' = LoadingOff
          /\ bestRouteCoords' = IF final # <<>> THEN final[1].route
                                ELSE bestRouteCoords
  /\ UNCHANGED <<nPlaces, poi, calc, position, destination, baseRouteTimeSec, places,
                 allPlaces, loadingMore, corridorMiles, lm, lmCount>>

\* a load-more that forgets to remove the processed places
unprocessedPlacesAll(all, options) == all

\* allPlaces.filter(place => !processedPlaceIds.has(place.place_id))
unprocessedPlaces(all, options) ==
  SelectSeq(all, LAMBDA id :
    \A j \in 1..Len(options) : place_id(options[j].place) # place_id(id))

\* the places loadMorePlaces will request: unprocessed, inside the corridor
\* of the displayed polyline, closest first, at most 10
loadMoreQueue(all, options, path, miles) ==
  LET inCorridor == onRouteFoodPlaces(unprocessedPlaces(all, options), path, miles)
      sorted     == IF Len(path.points) < 2 THEN <<>>
                    ELSE SortByOff(SelectSeq(inCorridor, HasLoc), path)
  IN  SubSeq(sorted, 1, Min(LOAD_MORE_SLICE, Len(sorted)))

\* a click on "Load more": the button is rendered when detourOptions is not
\* empty and enabled when not loading and some place is unprocessed;
\* loadMorePlaces runs up to its first await
LoadMoreClick ==
  /\ lmCount < MaxLoadMore
  /\ detourOptions # <<>>
  /\ ~loadingMore
  /\ position # 0 /\ destination # 0
  /\ unprocessedPlaces(allPlaces, detourOptions) # <<>>
  /\ lmCount' = lmCount + 1
  /\ LET queue == loadMoreQueue(allPlaces, detourOptions, bestRouteCoords, corridorMiles)
     IN
     IF queue = <<>>
     THEN /\ detourOptions' = loadMoreMerge(detourOptions, <<>>)
          /\ loadingMore' = FALSE
          /\ lm' = IdleLm
     ELSE /\ loadingMore' = TRUE
          /\ lm' = [pc |-> "run", destination |-> destination,
                    detourOptions |-> detourOptions,
                    baseRouteTimeSec |-> baseRouteTimeSec,
                    queue |-> queue, newOptions |-> <<>>]
          /\ UNCHANGED detourOptions
  /\ UNCHANGED <<nPlaces, poi, calc, position, destination, bestRouteCoords, baseRouteTimeSec,
                 places, allPlaces, loadingDetours, corridorMiles, pass, errors>>

\* the detour request for the head of the load-more queue settles; after
\* the last one the merged list is published
LoadMoreSettle(resp) ==
  /\ lm.pc = "run"
  /\ errors' = IF resp \in OkResponses THEN errors ELSE errors + 1
  /\ resp \in OkResponses \/ errors < MaxErrors
  /\ LET id   == Head(lm.queue)
         new1 == IF resp = "route"
                 THEN Append(lm.newOptions,
                             Option(id, lm.destination, lm.baseRouteTimeSec, 0))
                 ELSE lm.newOptions
         rest == Tail(lm.queue)
     IN
     IF rest # <<>>
     THEN /\ lm' = [lm EXCEPT !.queue = rest, !.newOptions = new1]
          /\ UNCHANGED <<detourOptions, loadingMore>>
     ELSE /\ detourOptions' = loadMoreMerge(lm.detourOptions, new1)
          /\ loadingMore' = FALSE
          /\ lm' = [IdleLm EXCEPT !.newOptions = new1]
  /\ UNCHANGED <<nPlaces, poi, calc, position, destination, bestRouteCoords, baseRouteTimeSec,
                 places, allPlaces, loadingDetours, corridorMiles, pass, lmCount>>

BaseResponses == {"route", "noroute", "error", "onepoint", "nopoints"}
SearchResponses == {"ok", "error"}
DetourResponses == {"route", "noroute", "error"}

Next ==
  \/ GeoPosition
  \/ \E p \in Passes, d \in Dests : PlaceChanged(p, d)
  \/ \E p \in Passes, resp \in BaseResponses : BaseRouteSettle(p, resp)
  \/ \E p \in Passes : \E s \in 1..Len(pass[p].samples), resp \in SearchResponses :
       SearchSettle(p, s, resp)
  \/ \E p \in Passes, id \in 0..nPlaces, resp \in DetourResponses : DetourSettle(p, id, resp)
  \/ LoadMoreClick
  \/ \E resp \in DetourResponses : LoadMoreSettle(resp)

Spec == Init /\ [][Next]_vars

\* One destination pass over a route with many restaurants: the provider
\* knows NBatchPlaces places, so that scoring needs more than one batch.
InitBatch ==
  /\ nPlaces = NBatchPlaces
  /\ poi = MainWorld(nPlaces)
  /\ calc = IdleCalc
  /\ InitState

NextBatch ==
  \/ GeoPosition
  \/ \E d \in Dests : PlaceChanged(1, d)
  \/ \E resp \in BaseResponses : BaseRouteSettle(1, resp)
  \/ \E s \in 1..Len(pass[1].samples), resp \in SearchResponses : SearchSettle(1, s, resp)
  \/ \E id \in 0..nPlaces, resp \in DetourResponses : DetourSettle(1, id, resp)

SpecBatch == InitBatch /\ [][NextBatch]_vars

\* ------------------------------------------------- the discovery functions
\* The sampler, the aggregator, the corridor filter and the candidate
\* selectors are functions of their arguments.  Here each is run on
\* arguments drawn from a bounded set; the component itself stays in its
\* initial state.

\* segment lengths (km) of the drawn polylines
SegKms == {0, 4, 9}

\* the polylines of k vertices that start at road position 0
RECURSIVE PolylinesOfLen(_)
PolylinesOfLen(k) ==
  IF k = 0 THEN {<<>>}
  ELSE IF k = 1 THEN {<<0>>}
  ELSE {Append(q, q[Len(q)] + d) : q \in PolylinesOfLen(k - 1), d \in SegKms}

\* sample spacings (km): the two the component uses, a finer and a coarser
Spacings == {1, sampleEveryKm(TRUE, 1), sampleEveryKm(FALSE, 1), 20}

\* the sampler is about to run on a polyline
InitSample ==
  /\ nPlaces = 0
  /\ poi = MainWorld(0)
  /\ \E k \in 0..MaxVertices, everyKm \in Spacings :
       \E mainPath \in PolylinesOfLen(k) :
         calc = [pc |-> "sample", mainPath |-> mainPath, everyKm |-> everyKm]

\* Step 3: sample along the route
Sample ==
  /\ calc.pc = "sample"
  /\ calc' = [pc |-> "sampled", mainPath |-> calc.mainPath,
              everyKm |-> calc.everyKm,
              sampledCoords |-> sampledCoords(calc.mainPath, calc.everyKm)]
  /\ UNCHANGED <<nPlaces, poi, position, destination, bestRouteCoords,
                 baseRouteTimeSec, places, allPlaces, detourOptions,
                 loadingDetours, loadingMore, corridorMiles, pass, lm,
                 lmCount, errors>>

\* the records of the aggregator's world: records 1, 3, .. describe place 1
\* and records 2, 4, .. place 2, each with attributes of its own
ListingWorld(n) ==
  [h \in 0..n |->
     [place_id |-> IF h = 0 THEN 0 ELSE ((h - 1) % 2) + 1,
      has |-> TRUE, lat |-> h, lng |-> h, alongM |-> 0, offsetM |-> h]]

\* the elements of a set of numbers in ascending order
RECURSIVE Ascending(_)
Ascending(S) ==
  IF S = {} THEN <<>>
  ELSE LET m == CHOOSE x \in S : \A y \in S : x <= y
       IN  <<m>> \o Ascending(S \ {m})

Reverse(q) == [j \in 1..Len(q) |-> q[Len(q) + 1 - j]]

\* the result lists a search may return: some of the records, in ascending
\* or descending order
ResultLists(n) ==
  {Ascending(S) : S \in SUBSET (1..n)} \cup
  {Reverse(Ascending(S)) : S \in SUBSET (1..n)}

\* the aggregator is about to run on a sequence of search responses
InitAggregate ==
  /\ nPlaces = MaxListings
  /\ poi = ListingWorld(MaxListings)
  /\ \E responses \in [1..MaxResponses -> ResultLists(MaxListings)] :
       calc = [pc |-> "aggregate", responses |-> responses, k |-> 0,
               dedupeMap |-> <<>>]

\* the body of the sample loop for the next response
Aggregate ==
  /\ calc.pc = "aggregate"
  /\ LET k1 == calc.k + 1 IN
     calc' = [calc EXCEPT !.k = k1,
                          !.dedupeMap = dedupeAdd(@, calc.responses[k1]),
                          !.pc = IF k1 = Len(calc.responses)
                                 THEN "aggregated" ELSE "aggregate"]
  /\ UNCHANGED <<nPlaces, poi, position, destination, bestRouteCoords,
                 baseRouteTimeSec, places, allPlaces, detourOptions,
                 loadingDetours, loadingMore, corridorMiles, pass, lm,
                 lmCount, errors>>

\* the records of the filter's world: 1 is close to the route, 2 lies 1.2
\* miles off, 3 has no geometry, 4 lies on the equator (lat = 0), 5 and 6
\* lie just inside and just outside one mile, 7 and 8 just inside and just
\* outside six miles
FilterWorld ==
  [h \in 0..8 |->
     [place_id |-> h, has |-> h \notin {0, 3},
      lat |-> IF h = 4 THEN 0 ELSE h, lng |-> 10 + h, alongM |-> 1000 * h,
      offsetM |-> CASE h = 2 -> 1931 [] h = 5 -> 1609 [] h = 6 -> 1610
                    [] h = 7 -> 9656 [] h = 8 -> 9657 [] OTHER -> 100]]

\* the corridor filter is about to run on some aggregated places, for a
\* slider value inside and outside the slider's range
InitFilter ==
  /\ nPlaces = 8
  /\ poi = FilterWorld
  /\ \E S \in SUBSET (1..8),
        miles \in (MIN_CORRIDOR_MILES - 1)..(MAX_CORRIDOR_MILES + 1) :
       calc = [pc |-> "filter", sampledPlaces |-> Ascending(S),
               mainPath |-> BasePath(1), corridorMiles |-> miles]

\* Step 4: filter to the corridor
Filter ==
  /\ calc.pc = "filter"
  /\ calc' = [pc |-> "filtered", sampledPlaces |-> calc.sampledPlaces,
              mainPath |-> calc.mainPath, corridorMiles |-> calc.corridorMiles,
              onRouteFoodPlaces |->
                onRouteFoodPlaces(calc.sampledPlaces, calc.mainPath,
                                  calc.corridorMiles)]
  /\ UNCHANGED <<nPlaces, poi, position, destination, bestRouteCoords,
                 baseRouteTimeSec, places, allPlaces, detourOptions,
                 loadingDetours, loadingMore, corridorMiles, pass, lm,
                 lmCount, errors>>

\* the records of the selectors' world: n places inside the corridor of a
\* route of totalKm, record h projected at (h * stride) metres along the
\* route (wrapping at its end) and offMul sets how the offsets vary
SelectWorld(n, totalKm, stride, offMul) ==
  [h \in 0..n |->
     [place_id |-> h, has |-> TRUE, lat |-> 1 + h, lng |-> 1 + h,
      alongM |-> (h * stride) % (1000 * totalKm + 1),
      offsetM |-> 100 * ((h * offMul) % 7)]]

\* the candidate selectors are about to run on the corridor-filtered places
InitSelect ==
  \E n \in 0..MaxPois, totalKm \in {0, 10, 30}, stride \in {0, 1, 333, 1000},
     offMul \in {0, 1, 3}, descending \in BOOLEAN :
    /\ nPlaces = n
    /\ poi = SelectWorld(n, totalKm, stride, offMul)
    /\ calc = [pc |-> "select",
               onRouteFoodPlaces |-> IF descending
                                     THEN Reverse([j \in 1..n |-> j])
                                     ELSE [j \in 1..n |-> j],
               mainPath |-> [dest |-> 1, via |-> 0, points |-> <<0, totalKm>>]]

\* the selector of the first App component: bins along the route
SelectBinned ==
  /\ calc.pc = "select"
  /\ calc' = [pc |-> "binned", onRouteFoodPlaces |-> calc.onRouteFoodPlaces,
              mainPath |-> calc.mainPath,
              bins |-> bins(calc.onRouteFoodPlaces, calc.mainPath),
              binCandidates |-> binCandidates(calc.onRouteFoodPlaces, calc.mainPath)]
  /\ UNCHANGED <<nPlaces, poi, position, destination, bestRouteCoords,
                 baseRouteTimeSec, places, allPlaces, detourOptions,
                 loadingDetours, loadingMore, corridorMiles, pass, lm,
                 lmCount, errors>>

\* the selector of the second App component: closest to the route first
SelectSorted ==
  /\ calc.pc = "binned"
  /\ calc' = [pc |-> "selected", onRouteFoodPlaces |-> calc.onRouteFoodPlaces,
              mainPath |-> calc.mainPath, bins |-> calc.bins,
              binCandidates |-> calc.binCandidates,
              candidates |-> candidates(calc.onRouteFoodPlaces, calc.mainPath)]
  /\ UNCHANGED <<nPlaces, poi, position, destination, bestRouteCoords,
                 baseRouteTimeSec, places, allPlaces, detourOptions,
                 loadingDetours, loadingMore, corridorMiles, pass, lm,
                 lmCount, errors>>

InitDiscover ==
  /\ InitState
  /\ \/ InitSample
     \/ InitAggregate
     \/ InitFilter
     \/ InitSelect

NextDiscover ==
  \/ Sample
  \/ Aggregate
  \/ Filter
  \/ SelectBinned
  \/ SelectSorted

SpecDiscover == InitDiscover /\ [][NextDiscover]_vars

\* ------------------------------------------------------- the result popup
\* Strings are sequences of characters.  String.prototype.toLowerCase:
LowerChar(c) ==
  CASE c = "C" -> "c" [] c = "J" -> "j" [] c = "V" -> "v" [] OTHER -> c

toLowerCase(str) == [i \in 1..Len(str) |-> LowerChar(str[i])]

\* String.prototype.includes
includes(str, kw) ==
  \E i \in 1..(Len(str) - Len(kw) + 1) : SubSeq(str, i, i + Len(kw) - 1) = kw

\* Array.prototype.join(' ')
RECURSIVE join(_)
join(types) ==
  IF types = <<>> THEN <<>>
  ELSE IF Len(types) = 1 THEN types[1]
  ELSE types[1] \o <<" ">> \o join(Tail(types))

\* Number(value) of a price <option>
Number(value) ==
  CASE value = "0" -> 0 [] value = "1" -> 1 [] value = "2" -> 2
    [] value = "3" -> 3 [] value = "4" -> 4

\* the values of the price <select>s: '' and the levels 0..4
UiPrices == {"", "0", "1", "2", "3", "4"}

Cafe     == <<"c", "a", "f", "e">>
Vegan    == <<"v", "e", "g", "a", "n">>
FastFood == <<"f", "a", "s", "t", " ", "f", "o", "o", "d">>

\* const options = ['chinese', .., 'fast food', 'cafe', .., 'vegan']: three
\* of the twenty keywords of the <select>
CuisineOptions == {Cafe, Vegan, FastFood}

\* the values of the cuisine <select>: '' (All Cuisines) and the keywords
UiCuisines == {<<>>} \cup CuisineOptions

\* The places behind the results: name (<<>>: none), types (isArray: the
\* record has a types array; items: its strings) and price_level (-1: the
\* record has none).
ViewWorld ==
  [h \in 0..5 |->
     [place_id |-> h, has |-> TRUE, lat |-> 1 + h, lng |-> 1 + h,
      alongM |-> 1000 * h, offsetM |-> 100,
      name  |-> CASE h = 1 -> <<"C", "a", "f", "e">>
                  [] h = 2 -> <<"J", "o", "e">>
                  [] h = 4 -> <<"v", "e", "g", "a", "n">>
                  [] h = 5 -> <<"V", "e", "g">>
                  [] OTHER -> <<>>,
      types |-> [isArray |-> h \in {1, 2, 4, 5},
                 items   |-> CASE h = 2 -> << <<"f", "a", "s", "t">>,
                                              <<"f", "o", "o", "d">> >>
                               [] h = 4 -> << Cafe >>
                               [] h = 5 -> << <<"a", "n">> >>
                               [] OTHER -> <<>>],
      price_level |-> CASE h = 1 -> 2 [] h = 2 -> 1 [] h = 3 -> 0
                        [] h = 4 -> 4 [] OTHER -> -1]]

\* const matchesCuisine = (p) => ..
matchesCuisine(p, uiCuisine) ==
  IF uiCuisine = <<>> THEN TRUE
  ELSE LET kw == toLowerCase(uiCuisine)
       IN  \/ includes(toLowerCase(poi[p.place].name), kw)
           \/ /\ poi[p.place].types.isArray
              /\ includes(toLowerCase(join(poi[p.place].types.items)), kw)

\* a price filter that lets a place without a price level through
inPriceUnknownPasses(p, uiMinPrice, uiMaxPrice) ==
  LET lvl == poi[p.place].price_level
  IN  \/ lvl = -1
      \/ /\ uiMinPrice = "" \/ lvl >= Number(uiMinPrice)
         /\ uiMaxPrice = "" \/ lvl <= Number(uiMaxPrice)

\* const inPrice = (p) => ..
inPrice(p, uiMinPrice, uiMaxPrice) ==
  LET lvl == poi[p.place].price_level
  IN  IF lvl = -1
      THEN uiMinPrice = "" /\ uiMaxPrice = ""
      ELSE /\ uiMinPrice = "" \/ lvl >= Number(uiMinPrice)
           /\ uiMaxPrice = "" \/ lvl <= Number(uiMaxPrice)

\* a view that lists the results in the order of their places
visibleBeforeByPlace(a, b) == a.place < b.place

\* .sort((a,b)=>a.addedTime-b.addedTime || a.totalTime-b.totalTime)
visibleBefore(a, b) ==
  \/ a.addedTime < b.addedTime
  \/ a.addedTime = b.addedTime /\ a.totalTime < b.totalTime

\* .slice().sort(..) of the view (stable)
RECURSIVE SortVisible(_)
SortVisible(list) ==
  IF list = <<>> THEN <<>>
  ELSE LET e    == list[Len(list)]
           rest == SortVisible(SubSeq(list, 1, Len(list) - 1))
           at   == CHOOSE i \in 1..(Len(rest) + 1) :
                     /\ \A j \in 1..(i - 1) : ~visibleBefore(e, rest[j])
                     /\ i <= Len(rest) => visibleBefore(e, rest[i])
       IN  SubSeq(rest, 1, at - 1) \o <<e>> \o SubSeq(rest, at, Len(rest))

\* const visibleOptions = useMemo(..)
visibleOptions(options, uiCuisine, uiMinPrice, uiMaxPrice) ==
  SortVisible(SelectSeq(SelectSeq(options,
                                  LAMBDA p : matchesCuisine(p, uiCuisine)),
                        LAMBDA p : inPrice(p, uiMinPrice, uiMaxPrice)))

\* const withinPrice = (p) => ..
withinPrice(p, uiMinPrice, uiMaxPrice) ==
  LET lvl == poi[p.place].price_level
  IN  IF lvl = -1
      THEN uiMinPrice = "" /\ uiMaxPrice = ""
      ELSE /\ uiMinPrice = "" \/ lvl >= Number(uiMinPrice)
           /\ uiMaxPrice = "" \/ lvl <= Number(uiMaxPrice)

\* a count that looks at the names only
keywordCountNameOnly(list, kw) ==
  Cardinality({j \in 1..Len(list) :
                 includes(toLowerCase(poi[list[j].place].name), toLowerCase(kw))})

\* for (const item of list) { if (name.includes(k) || types.includes(k)) c++ }
keywordCount(list, kw) ==
  LET k == toLowerCase(kw)
  IN  Cardinality({j \in 1..Len(list) :
        LET name  == toLowerCase(poi[list[j].place].name)
            types == IF poi[list[j].place].types.isArray
                     THEN toLowerCase(join(poi[list[j].place].types.items))
                     ELSE <<>>
        IN  includes(name, k) \/ includes(types, k)})

\* const cuisineCounts = useMemo(..)
cuisineCounts(options, uiMinPrice, uiMaxPrice) ==
  LET list == SelectSeq(options, LAMBDA p : withinPrice(p, uiMinPrice, uiMaxPrice))
  IN  [kw \in UiCuisines |->
         IF kw = <<>> THEN Len(list) ELSE keywordCount(list, kw)]

\* one render of the popup: the two memoised values for the filters set
Render(options, uiCuisine, uiMinPrice, uiMaxPrice) ==
  [pc |-> "view", uiCuisine |-> uiCuisine,
   uiMinPrice |-> uiMinPrice, uiMaxPrice |-> uiMaxPrice,
   visibleOptions |-> visibleOptions(options, uiCuisine, uiMinPrice, uiMaxPrice),
   cuisineCounts  |-> cuisineCounts(options, uiMinPrice, uiMaxPrice)]

\* the sequences of up to n different places of a set
RECURSIVE Arrangements(_, _)
Arrangements(S, n) ==
  IF n = 0 THEN {<<>>}
  ELSE LET shorter == Arrangements(S, n - 1)
       IN  shorter \cup {Append(q, h) : q \in {r \in shorter : Len(r) = n - 1},
                                       h \in S}

\* The popup shows a result set the scorer has published for destination 1:
\* entries of some places, in the scorer's order, and no filter set.
InitView ==
  /\ nPlaces = 5
  /\ poi = ViewWorld
  /\ position = 1
  /\ destination = 1
  /\ bestRouteCoords = BasePath(1)
  /\ baseRouteTimeSec = BaseTime(1)
  /\ places = <<>>
  /\ allPlaces = <<>>
  /\ loadingDetours = LoadingOff
  /\ loadingMore = FALSE
  /\ corridorMiles = 1
  /\ pass = [p \in Passes |-> IdlePass]
  /\ lm = IdleLm
  /\ lmCount = 0
  /\ errors = 0
  /\ \E q \in {r \in Arrangements(1..5, MaxShown) :
                  \A i, j \in 1..Len(r) : i # j => r[i] # r[j]} :
       /\ detourOptions = SortOptions([j \in 1..Len(q) |->
                                         Option(q[j], 1, BaseTime(1), 1)])
       /\ calc = Render(detourOptions, <<>>, "", "")

\* onChange={(e) => setUiCuisine(e.target.value)} and the render it causes
SetUiCuisine(value) ==
  /\ calc.pc = "view"
  /\ calc' = Render(detourOptions, value, calc.uiMinPrice, calc.uiMaxPrice)
  /\ UNCHANGED <<nPlaces, poi, position, destination, bestRouteCoords,
                 baseRouteTimeSec, places, allPlaces, detourOptions,
                 loadingDetours, loadingMore, corridorMiles, pass, lm,
                 lmCount, errors>>

\* onChange={(e)=>setUiMinPrice(e.target.value)}
SetUiMinPrice(value) ==
  /\ calc.pc = "view"
  /\ calc' = Render(detourOptions, calc.uiCuisine, value, calc.uiMaxPrice)
  /\ UNCHANGED <<nPlaces, poi, position, destination, bestRouteCoords,
                 baseRouteTimeSec, places, allPlaces, detourOptions,
                 loadingDetours, loadingMore, corridorMiles, pass, lm,
                 lmCount, errors>>

\* onChange={(e)=>setUiMaxPrice(e.target.value)}
SetUiMaxPrice(value) ==
  /\ calc.pc = "view"
  /\ calc' = Render(detourOptions, calc.uiCuisine, calc.uiMinPrice, value)
  /\ UNCHANGED <<nPlaces, poi, position, destination, bestRouteCoords,
                 baseRouteTimeSec, places, allPlaces, detourOptions,
                 loadingDetours, loadingMore, corridorMiles, pass, lm,
                 lmCount, errors>>

NextView ==
  \/ \E value \in UiCuisines : SetUiCuisine(value)
  \/ \E value \in UiPrices : SetUiMinPrice(value)
  \/ \E value \in UiPrices : SetUiMaxPrice(value)

SpecView == InitView /\ [][NextView]_vars

\* ------------------------------------------------------ the load-more world
\* The interactive component with one more POI along the road, so that a
\* load-more has several places to request.
InitMore ==
  /\ nPlaces = NMorePlaces
  /\ poi = MainWorld(nPlaces)
  /\ calc = IdleCalc
  /\ position = 0
  /\ destination = 0
  /\ bestRouteCoords = NoPath
  /\ baseRouteTimeSec = 0
  /\ places = <<>>
  /\ allPlaces = <<>>
  /\ detourOptions = <<>>
  /\ loadingDetours = LoadingOff
  /\ loadingMore = FALSE
  /\ corridorMiles = 1
  /\ pass = [p \in Passes |-> IdlePass]
  /\ lm = IdleLm
  /\ lmCount = 0
  /\ errors = MaxErrors   \* the upstream answers every request of this world

SpecMore == InitMore /\ [][Next]_vars

\* ------------------------------------------- the search proxy /api/places
\* src/api/places.js.  Query values are strings (sequences of characters);
\* <<>> is a parameter that is missing or empty (both are falsy).
DEFAULT_RADIUS_METERS == 5000
MAX_RADIUS_METERS == 8000
MIN_RADIUS_METERS == 500

Digits == <<"0", "1", "2", "3", "4", "5", "6", "7", "8", "9">>

IsDigit(c) == \E d \in 1..10 : Digits[d] = c

DigitValue(c) == (CHOOSE d \in 1..10 : Digits[d] = c) - 1

\* the value of the longest prefix of digits of str, continuing from acc
RECURSIVE DigitPrefix(_, _)
DigitPrefix(str, acc) ==
  IF str = <<>> \/ ~IsDigit(Head(str)) THEN acc
  ELSE DigitPrefix(Tail(str), 10 * acc + DigitValue(Head(str)))

\* parseInt(str, 10): leading blanks are skipped, a sign is read, then the
\* digits up to the first character that is none; NaN without a digit
RECURSIVE parseInt(_)
parseInt(str) ==
  IF str # <<>> /\ Head(str) = " " THEN parseInt(Tail(str))
  ELSE LET signed == str # <<>> /\ Head(str) \in {"-", "+"}
           body   == IF signed THEN Tail(str) ELSE str
       IN  IF body = <<>> \/ ~IsDigit(Head(body))
           THEN [isNaN |-> TRUE, value |-> 0]
           ELSE [isNaN |-> FALSE,
                 value |-> IF signed /\ Head(str) = "-"
                           THEN 0 - DigitPrefix(body, 0)
                           ELSE DigitPrefix(body, 0)]

\* a proxy that passes the parsed radius on as it is
normalizedRadiusUnclamped(radius) ==
  IF radius = <<>> THEN DEFAULT_RADIUS_METERS
  ELSE LET parsed == parseInt(radius)
       IN  IF parsed.isNaN THEN DEFAULT_RADIUS_METERS ELSE parsed.value

\* let normalizedRadius = DEFAULT_RADIUS_METERS; if (radius) { .. }
normalizedRadius(radius) ==
  IF radius = <<>> THEN DEFAULT_RADIUS_METERS
  ELSE LET parsed == parseInt(radius)
       IN  IF parsed.isNaN THEN DEFAULT_RADIUS_METERS
           ELSE Max(MIN_RADIUS_METERS, Min(MAX_RADIUS_METERS, parsed.value))

\* (rankby || '').toLowerCase() === 'distance'
useRankByDistance(rankby) ==
  [i \in 1..Len(rankby) |-> IF rankby[i] = "D" THEN "d" ELSE rankby[i]]
    = <<"d", "i", "s", "t", "a", "n", "c", "e">>

\* the radius / rankby parameters of the upstream URL: the set of
\* [name, value] pairs params.set has stored
upstreamParams(radius, rankby) ==
  IF useRankByDistance(rankby)
  THEN {[name |-> "rankby", value |-> "distance"]}
  ELSE {[name |-> "radius", value |-> normalizedRadius(radius)]}

\* the radius values of the requests
RadiusInputs ==
  { <<>>,
    <<"a", "b", "c">>,
    <<"0">>,
    <<"3", "0", "0">>,
    <<"7", "0", "0">>,
    <<" ", "7", "0", "0">>,
    <<"8", "0", "0", "0">>,
    <<"9", "0", "0", "0">>,
    <<"-", "5">>,
    <<"1", "2", "a", "b", "c">>,
    <<"1", "e", "4">> }

\* the rankby values of the requests
RankbyInputs ==
  { <<>>,
    <<"d", "i", "s", "t", "a", "n", "c", "e">>,
    <<"D", "i", "s", "t", "a", "n", "c", "e">>,
    <<"p", "r", "o", "m", "i", "n", "e", "n", "c", "e">> }

\* a request has arrived at the proxy: its query, and whether the server
\* has its API key
InitProxy ==
  /\ nPlaces = 0
  /\ poi = MainWorld(0)
  /\ InitState
  /\ \E radius \in RadiusInputs, rankby \in RankbyInputs,
        hasKey \in BOOLEAN, hasLatLng \in BOOLEAN :
       calc = [pc |-> "request", hasKey |-> hasKey, hasLatLng |-> hasLatLng,
               radius |-> radius, rankby |-> rankby]

\* the server has no key: res.status(500)
ProxyMisconfigured ==
  /\ calc.pc = "request"
  /\ ~calc.hasKey
  /\ calc' = [calc EXCEPT !.pc = "responded"] @@ [status |-> 500, sent |-> {}]
  /\ UNCHANGED <<nPlaces, poi, position, destination, bestRouteCoords,
                 baseRouteTimeSec, places, allPlaces, detourOptions,
                 loadingDetours, loadingMore, corridorMiles, pass, lm,
                 lmCount, errors>>

\* if (!lat || !lng) return res.status(400)
ProxyBadRequest ==
  /\ calc.pc = "request"
  /\ calc.hasKey /\ ~calc.hasLatLng
  /\ calc' = [calc EXCEPT !.pc = "responded"] @@ [status |-> 400, sent |-> {}]
  /\ UNCHANGED <<nPlaces, poi, position, destination, bestRouteCoords,
                 baseRouteTimeSec, places, allPlaces, detourOptions,
                 loadingDetours, loadingMore, corridorMiles, pass, lm,
                 lmCount, errors>>

\* the request goes upstream: fetch(url) with the parameters built
ProxyFetch ==
  /\ calc.pc = "request"
  /\ calc.hasKey /\ calc.hasLatLng
  /\ calc' = [calc EXCEPT !.pc = "fetching"]
                @@ [sent |-> upstreamParams(calc.radius, calc.rankby)]
  /\ UNCHANGED <<nPlaces, poi, position, destination, bestRouteCoords,
                 baseRouteTimeSec, places, allPlaces, detourOptions,
                 loadingDetours, loadingMore, corridorMiles, pass, lm,
                 lmCount, errors>>

\* the upstream answer: 200 with the results, 502 on a status other than
\* OK, 500 when fetch or json() throws
ProxyRespond(status) ==
  /\ calc.pc = "fetching"
  /\ calc' = [calc EXCEPT !.pc = "responded"] @@ [status |-> status]
  /\ UNCHANGED <<nPlaces, poi, position, destination, bestRouteCoords,
                 baseRouteTimeSec, places, allPlaces, detourOptions,
                 loadingDetours, loadingMore, corridorMiles, pass, lm,
                 lmCount, errors>>

NextProxy ==
  \/ ProxyMisconfigured
  \/ ProxyBadRequest
  \/ ProxyFetch
  \/ \E status \in {200, 500, 502} : ProxyRespond(status)

SpecProxy == InitProxy /\ [][NextProxy]_vars

\* ------------------------------------------------ Turn-by-turn navigation
\* Points of the road (metres) the device reports and steps end at.
Undefined == -1
StepEnds == {60, Undefined}
Fixes == {0, 20}
Null == [isNull |-> TRUE]

\* thresholdKm = 0.04 (km), in metres
THRESHOLD_M == 40

\* dKm <= thresholdKm; a step without end_location has end.lat undefined,
\* the distance is NaN and the comparison is false
withinThreshold(latitude, end) ==
  end # Undefined /\ Abs(latitude - end) <= THRESHOLD_M

\* buildStepsFromRoute: the steps of every leg, in order; a leg is the
\* sequence of its steps (leg.steps || []), a step is its end point
RECURSIVE buildStepsFromRoute(_)
buildStepsFromRoute(legs) ==
  IF legs = <<>> THEN <<>>
  ELSE [i \in 1..Len(Head(legs)) |-> [end |-> Head(legs)[i]]]
         \o buildStepsFromRoute(Tail(legs))

\* Skip step without the Math.min on the last index
skipStepUnclamped(n) ==
  IF n = Null THEN n ELSE [n EXCEPT !.current = n.current + 1]

\* the updater of "Skip step":
\* n ? { ...n, current: Math.min((n.current||0)+1, n.steps.length-1) } : n
skipStep(n) ==
  IF n = Null THEN n
  ELSE [n EXCEPT !.current = Min(n.current + 1, Len(n.steps) - 1)]

\* the updater of the watchPosition callback
advanceStep(prev, latitude) ==
  IF prev = Null THEN prev
  ELSE LET idx == prev.current
       IN  IF idx + 1 > Len(prev.steps) THEN prev        \* if (!step)
           ELSE IF withinThreshold(latitude, prev.steps[idx + 1].end)
                THEN IF idx + 1 >= Len(prev.steps) THEN Null
                     ELSE [prev EXCEPT !.current = idx + 1]
                ELSE prev

\* what the last handler was, the index and step count it found
Event(kind, n) ==
  [kind |-> kind,
   from |-> IF n = Null THEN -1 ELSE n.current,
   of   |-> IF n = Null THEN 0 ELSE Len(n.steps)]

Legs == UNION {[1..n -> StepEnds] : n \in 0..MaxLegSteps}
Routes == UNION {[1..n -> Legs] : n \in 0..MaxLegs}

\* A trip is planned and a scored place is selected; its routeInfo holds
\* a Directions route whose legs are drawn.
InitNav ==
  /\ nPlaces = 1
  /\ poi = MainWorld(1)
  /\ position = 1
  /\ destination = 1
  /\ bestRouteCoords = BasePath(1)
  /\ baseRouteTimeSec = BaseTime(1)
  /\ places = <<>>
  /\ allPlaces = <<>>
  /\ detourOptions = <<>>
  /\ loadingDetours = LoadingOff
  /\ loadingMore = FALSE
  /\ corridorMiles = 1
  /\ pass = [p \in Passes |-> IdlePass]
  /\ lm = IdleLm
  /\ lmCount = 0
  /\ errors = 0
  /\ \E legs \in Routes :
       calc = [routeInfo |-> [place |-> 1, legs |-> legs],
               confirmRoute |-> Null, navigation |-> Null,
               here |-> 0, event |-> Event("none", Null)]

\* "Use This Route" in the place popup
UseThisRoute ==
  /\ bestRouteCoords' = DetourPath(calc.routeInfo.place, destination)
  /\ calc' = [calc EXCEPT !.confirmRoute = calc.routeInfo,
                          !.event = Event("use", calc.navigation)]
  /\ UNCHANGED <<nPlaces, poi, position, destination, baseRouteTimeSec,
                 places, allPlaces, detourOptions, loadingDetours,
                 loadingMore, corridorMiles, pass, lm, lmCount, errors>>

\* "Back" on the confirmation panel, shown while no navigation runs
Back ==
  /\ calc.navigation = Null
  /\ calc.confirmRoute # Null
  /\ calc' = [calc EXCEPT !.confirmRoute = Null,
                          !.event = Event("back", calc.navigation)]
  /\ UNCHANGED <<nPlaces, poi, position, destination, bestRouteCoords,
                 baseRouteTimeSec, places, allPlaces, detourOptions,
                 loadingDetours, loadingMore, corridorMiles, pass, lm,
                 lmCount, errors>>

\* "Go" on the confirmation panel: nothing happens for a route without
\* steps, else navigation starts at the first step
Go ==
  /\ calc.navigation = Null
  /\ calc.confirmRoute # Null
  /\ LET steps == buildStepsFromRoute(calc.confirmRoute.legs)
     IN  calc' = [calc EXCEPT
                    !.navigation = IF Len(steps) = 0 THEN @
                                   ELSE [steps |-> steps, current |-> 0],
                    !.event = Event("go", calc.navigation)]
  /\ UNCHANGED <<nPlaces, poi, position, destination, bestRouteCoords,
                 baseRouteTimeSec, places, allPlaces, detourOptions,
                 loadingDetours, loadingMore, corridorMiles, pass, lm,
                 lmCount, errors>>

\* a fix of the position watch started with navigation; one delivered just
\* after navigation ended finds prev null
WatchPosition(latitude) ==
  /\ calc.navigation # Null \/ calc.event.kind \in {"watch", "end"}
  /\ position' = 1
  /\ calc' = [calc EXCEPT !.here = latitude,
                          !.navigation = advanceStep(@, latitude),
                          !.event = Event("watch", calc.navigation)]
  /\ UNCHANGED <<nPlaces, poi, destination, bestRouteCoords,
                 baseRouteTimeSec, places, allPlaces, detourOptions,
                 loadingDetours, loadingMore, corridorMiles, pass, lm,
                 lmCount, errors>>

\* "End" on the navigation panel
EndNavigation ==
  /\ calc.navigation # Null
  /\ calc' = [calc EXCEPT !.navigation = Null,
                          !.event = Event("end", calc.navigation)]
  /\ UNCHANGED <<nPlaces, poi, position, destination, bestRouteCoords,
                 baseRouteTimeSec, places, allPlaces, detourOptions,
                 loadingDetours, loadingMore, corridorMiles, pass, lm,
                 lmCount, errors>>

\* "Skip step" on the navigation panel
SkipStep ==
  /\ calc.navigation # Null
  /\ calc' = [calc EXCEPT !.navigation = skipStep(@),
                          !.event = Event("skip", calc.navigation)]
  /\ UNCHANGED <<nPlaces, poi, position, destination, bestRouteCoords,
                 baseRouteTimeSec, places, allPlaces, detourOptions,
                 loadingDetours, loadingMore, corridorMiles, pass, lm,
                 lmCount, errors>>

NextNav ==
  \/ UseThisRoute
  \/ Back
  \/ Go
  \/ \E latitude \in Fixes : WatchPosition(latitude)
  \/ EndNavigation
  \/ SkipStep

SpecNav == InitNav /\ [][NextNav]_vars

\* ------------------------------------------------------------------ claims
\* what an entry shows: its content without the tag of the closure that built it
Shown(s) ==
  {[place |-> s[j].place, totalTime |-> s[j].totalTime,
    addedTime |-> s[j].addedTime, route |-> s[j].route] : j \in 1..Len(s)}

PlaceIds(s) == {s[j].place : j \in 1..Len(s)}

\* pass p has reset the result set (setDetourOptions([]) after its baseline)
HasReset(p) == pass[p].pc \in {"sampling", "scoring", "done"}

\* pass p is between two awaits
Running(p) == pass[p].pc \in {"baseline", "sampling", "scoring"}

\* the pass of the latest destination selection
Newest(p) == pass[p].pc # "idle" /\ \A q \in Passes : q > p => pass[q].pc = "idle"

\* position (from 0) of the batch that holds candidate number j (from 1)
BatchIndex(j) == (j - 1) \div CONCURRENCY

\* C1: once a pass that was selected while an older pass had detour
\* requests pending has reset the result set, no entry of the result set
\* was scored by that older pass.
C1_NoStaleEntries ==
  \A q \in Passes : HasReset(q) =>
    \A j \in 1..Len(detourOptions) :
      detourOptions[j].by \notin pass[q].overtook

\* C2: when load-more publishes, every entry shown before is still shown
\* and every result load-more scored is shown.
C2_LoadMoreKeepsEntries ==
  [][(lm.pc = "run" /\ lm'.pc = "idle") =>
       /\ Shown(detourOptions) \subseteq Shown(detourOptions')
       /\ Shown(lm'.newOptions) \subseteq Shown(detourOptions')]_vars

\* C3: between the reset of the newest pass and the next destination
\* selection, no step other than a reset removes an entry from the published
\* result set.
C3_GrowsOnly ==
  [][(/\ \E q \in Passes : Newest(q) /\ HasReset(q)
      /\ \E q \in Passes : Newest(q)' /\ HasReset(q)'
      /\ ~ \E q \in Passes : pass[q].pc = "baseline" /\ pass'[q].pc = "sampling")
       => Shown(detourOptions) \subseteq Shown(detourOptions')]_vars

\* C4: after every completion callback of a pass, in every settle order, the
\* published result set holds exactly the results of the candidates that
\* have settled successfully so far, each once.
C4_NoLostCompletion ==
  \A p \in Passes : pass[p].pc \in {"scoring", "done"} =>
    LET me == pass[p] IN
    /\ Shown(detourOptions) =
         UNION {Shown(<<Option(id, me.loc, me.baseTimeSec, p)>>) :
                  id \in me.settled \ me.failed}
    /\ Len(detourOptions) = Cardinality(me.settled \ me.failed)

\* two results of one batch have been published, in an order other than the
\* candidates' order, while requests of the batch are still pending
C4_Witness ==
  /\ pass[1].pc = "scoring"
  /\ pass[1].inflight # {}
  /\ Len(pass[1].options) >= 2
  /\ pass[1].options[1].place = pass[1].candidates[2]
  /\ pass[1].failed # {}

\* C5: the result set never holds two entries with the same POI id.
C5_NoDuplicateIds ==
  \A j, k \in 1..Len(detourOptions) :
    j # k => place_id(detourOptions[j].place) # place_id(detourOptions[k].place)

\* a place scored both by a pass and by load-more is shown after load-more
\* has published
C5_Witness ==
  /\ lm.pc = "idle"
  /\ \E p \in Passes :
       \E id \in PlaceIds(pass[p].options) \cap PlaceIds(lm.newOptions) :
         id \in PlaceIds(detourOptions)

\* C6: every published result set is ordered by addedTime, then totalTime.
C6_Sorted ==
  \A j, k \in 1..Len(detourOptions) :
    j < k =>
      \/ detourOptions[j].addedTime < detourOptions[k].addedTime
      \/ /\ detourOptions[j].addedTime = detourOptions[k].addedTime
         /\ detourOptions[j].totalTime <= detourOptions[k].totalTime

\* with a 1200 s baseline the candidate totalling 1200 s (added 0) is ranked
\* before a result with positive added time
C6_Witness ==
  /\ Len(detourOptions) >= 2
  /\ baseRouteTimeSec = 1200
  /\ detourOptions[1].totalTime = 1200
  /\ detourOptions[1].addedTime = 0
  /\ detourOptions[2].addedTime > 0

\* C7: every entry has addedTime = max(0, totalTime - baseline) >= 0, the
\* baseline being the direct route to the destination the entry's detour
\* leads to.
C7_AddedTime ==
  \A j \in 1..Len(detourOptions) :
    LET e == detourOptions[j] IN
    /\ e.addedTime >= 0
    /\ e.totalTime = DetourTime(e.place, e.route.dest)
    /\ e.addedTime = Max(0, e.totalTime - BaseTime(e.route.dest))

\* C8: requests go out in consecutive batches of at most CONCURRENCY, and a
\* request is pending only when every candidate of the earlier batches has
\* settled.
C8_BatchBarrier ==
  \A p \in Passes : pass[p].pc = "scoring" =>
    LET me == pass[p]
        n  == Len(me.candidates)
    IN
    /\ Cardinality(me.inflight) <= CONCURRENCY
    /\ me.inflight \cap me.settled = {}
    /\ \A j, k \in 1..n :
         (k < j /\ me.candidates[j] \in me.inflight \cup me.settled)
           => me.candidates[k] \in me.inflight \cup me.settled
    /\ \A j, k \in 1..n :
         (me.candidates[j] \in me.inflight /\ BatchIndex(k) < BatchIndex(j))
           => me.candidates[k] \in me.settled
    /\ \A j, k \in 1..n :
         (me.candidates[j] \in me.inflight /\ me.candidates[k] \in me.inflight)
           => BatchIndex(j) = BatchIndex(k)

\* the second batch is pending after a first batch in which a request failed
C8_Witness ==
  /\ pass[1].pc = "scoring"
  /\ pass[1].i = CONCURRENCY
  /\ pass[1].inflight # {}
  /\ pass[1].failed # {}
  /\ Cardinality(pass[1].settled) = CONCURRENCY

\* C9: a failing candidate is omitted from the results and never aborts the
\* pass: while candidates remain the pass has requests pending, and it ends
\* with every candidate requested, the final list published and the loading
\* indicator cleared.
C9_FailureNeverAborts ==
  \A p \in Passes : pass[p].candidates # <<>> =>
    LET me == pass[p] IN
    /\ me.pc \in {"scoring", "done"}
    /\ me.failed \cap PlaceIds(me.options) = {}
    /\ me.failed \cap PlaceIds(detourOptions) = {}
    /\ me.pc = "scoring" => me.inflight # {}
    /\ me.pc = "done" =>
         /\ me.settled = Range(me.candidates)
         /\ PlaceIds(detourOptions) = Range(me.candidates) \ me.failed
         /\ detourOptions = me.options
         /\ ~loadingDetours.active

\* a pass of two batches has ended although a request of its first batch
\* failed
C9_Witness ==
  /\ pass[1].pc = "done"
  /\ Len(pass[1].candidates) > CONCURRENCY
  /\ \E j \in 1..CONCURRENCY : pass[1].candidates[j] \in pass[1].failed
  /\ pass[1].options # <<>>

\* C10: a pass whose baseline could not be obtained has issued no search and
\* no detour request, and once no pass is running the loading indicator is
\* inactive.
C10_BaselineFailureClearsLoading ==
  \A p \in Passes : pass[p].pc \in {"failed", "crashed"} =>
    /\ pass[p].k = 0
    /\ pass[p].inflight = {} /\ pass[p].settled = {}
    /\ (\A q \in Passes : ~Running(q)) => ~loadingDetours.active

\* C11: a destination selected while the position is unknown, or a baseline
\* whose polyline decodes to fewer than 2 points, leaves the destination,
\* the displayed route, the candidate sets, the result set and the progress
\* as they were.
C11_InputErrorLeavesState ==
  [][(\E p \in Passes :
        \/ pass[p].pc = "idle" /\ pass'[p].pc = "aborted"
        \/ /\ pass[p].pc = "baseline"
           /\ pass'[p].samples # <<>>
           /\ Len(pass'[p].mainPath.points) < 2)
       => UNCHANGED <<destination, bestRouteCoords, places, allPlaces,
                      detourOptions, loadingDetours>>]_vars

\* C12: a failed search keeps the POIs aggregated so far, the search of
\* the next sample is issued, after the last sample the pass filters and
\* goes on to scoring, and a pass that reached scoring has requested every
\* sample.
C12_SearchFailureSkipped ==
  [][\A p \in Passes :
       /\ \A s \in pass[p].searching :
            (pass[p].pc = "sampling" /\ s \in pass'[p].skipped \ pass[p].skipped) =>
              /\ pass'[p].dedupeMap = pass[p].dedupeMap
              /\ IF s < Len(pass[p].samples)
                 THEN pass'[p].pc = "sampling" /\ s + 1 \in pass'[p].searching
                 ELSE /\ pass'[p].pc \in {"scoring", "done"}
                      /\ places' = onRouteFoodPlaces(pass[p].dedupeMap,
                                                     pass[p].mainPath,
                                                     pass[p].corridorMiles)
       /\ pass'[p].pc \in {"scoring", "done"} =>
            pass'[p].searched = 1..Len(pass'[p].samples)]_vars

\* the search of the second of three samples failed, the POIs of the first
\* sample were kept and the pass is scoring
C12_Witness ==
  \E p \in Passes :
    /\ pass[p].pc = "scoring"
    /\ Len(pass[p].samples) = 3
    /\ pass[p].skipped = {2}
    /\ 0 \in Range(pass[p].dedupeMap)

\* C13: a pass has at most one search request pending, and the request for
\* a sample is pending only when the requests of all earlier samples have
\* settled.
C13_SequentialSearch ==
  \A p \in Passes :
    /\ Cardinality(pass[p].searching) <= 1
    /\ pass[p].searching \cap pass[p].searched = {}
    /\ \A s \in pass[p].searching \cup pass[p].searched :
         \A t \in 1..(s - 1) : t \in pass[p].searched

\* the third sample is being searched after the first two have settled
C13_Witness ==
  \E p \in Passes :
    /\ pass[p].pc = "sampling"
    /\ pass[p].searching = {3}
    /\ pass[p].searched = {1, 2}

\* C14: when the baseline of the newest selection arrives while no older
\* pass and no load-more is running, the displayed route becomes the
\* baseline polyline and the candidate sets and the result set are empty.
C14_SelectionResets ==
  [][\A q \in Passes :
       (/\ Newest(q)
        /\ pass[q].pc = "baseline"
        /\ pass'[q].pc = "sampling"
        /\ \A p \in Passes : p # q => ~Running(p)
        /\ lm.pc = "idle")
         => /\ bestRouteCoords' = pass'[q].mainPath
            /\ places' = <<>>
            /\ allPlaces' = <<>>
            /\ detourOptions' = <<>>]_vars

\* the concatenation of the first k of a sequence of result lists
RECURSIVE Flatten(_, _)
Flatten(lists, k) ==
  IF k = 0 THEN <<>> ELSE Flatten(lists, k - 1) \o lists[k]

\* C15: after any number of responses the aggregated set holds, for every
\* place id returned so far, exactly one record, and it is the record of
\* the first response (in sample order) that carried the id.
C15_FirstSeenWins ==
  calc.pc \in {"aggregate", "aggregated"} =>
    LET flat == Flatten(calc.responses, calc.k)
        map  == calc.dedupeMap
    IN
    /\ \A j \in 1..Len(map) : map[j] \in Range(flat)
    /\ \A i \in 1..Len(flat) :
         LET first == CHOOSE f \in 1..i :
                        /\ place_id(flat[f]) = place_id(flat[i])
                        /\ \A g \in 1..(f - 1) :
                             place_id(flat[g]) # place_id(flat[i])
         IN  /\ Cardinality({j \in 1..Len(map) :
                               place_id(map[j]) = place_id(flat[i])}) = 1
             /\ flat[first] \in Range(map)

\* two responses carried different records of the same place and the
\* aggregation is complete
C15_Witness ==
  /\ calc.pc = "aggregated"
  /\ \E a \in Range(calc.responses[1]), b \in Range(calc.responses[2]) :
       /\ a # b
       /\ place_id(a) = place_id(b)
       /\ a \in Range(calc.dedupeMap)

\* the corridor width in centimetres for a slider value: the miles clamped
\* to 1..6, at 1.60934 km a mile
WidthCm(miles) ==
  (IF miles < 1 THEN 1 ELSE IF miles > 6 THEN 6 ELSE miles) * 160934

\* C16: the corridor filter keeps exactly the aggregated places that have
\* a location and lie within the corridor width of the baseline polyline:
\* the place 1.2 miles off the route is out at 1 mile and in at 2 miles,
\* and a place without a location is dropped.
C16_CorridorFilter ==
  calc.pc = "filtered" =>
    LET kept == calc.onRouteFoodPlaces IN
    /\ kept = SelectSeq(calc.sampledPlaces,
                        LAMBDA h : /\ poi[h].has
                                   /\ poi[h].offsetM * 100 <= WidthCm(calc.corridorMiles))
    /\ (2 \in Range(calc.sampledPlaces) /\ calc.corridorMiles = 1)
         => 2 \notin Range(kept)
    /\ (2 \in Range(calc.sampledPlaces) /\ calc.corridorMiles = 2)
         => 2 \in Range(kept)
    /\ 3 \notin Range(kept)

\* the bin of the place with record h on a route: floor(alongKm / binWidth)
\* clamped to [0, binCount - 1], binWidth = max(epsilon, totalKm / binCount),
\* written without the division (all lengths in metres, times binCount)
BinOf(h, path) ==
  LET width == Max(BIN_EPSILON_M * MAX_DETOURS, totalM(path.points))
      along == AlongM(h, path) * MAX_DETOURS
  IN  CHOOSE b \in 0..(MAX_DETOURS - 1) :
        /\ b * width <= along
        /\ along < (b + 1) * width \/ b = MAX_DETOURS - 1

\* the position of place h in a list that holds it
IndexIn(list, h) == CHOOSE j \in 1..Len(list) : list[j] = h

\* every place of the list lies in a bin of its own
DistinctBins(list, path) ==
  \A i, j \in 1..Len(list) :
    i # j => BinOf(list[i], path) # BinOf(list[j], path)

\* every place of the list has the smallest offset among the given places
\* of its bin
ClosestOfBin(list, given, path) ==
  \A i \in 1..Len(list) : \A j \in 1..Len(given) :
    BinOf(given[j], path) = BinOf(list[i], path)
      => OffsetM(list[i], path) <= OffsetM(given[j], path)

\* C17: whatever the corridor-filtered places, the candidates selected lie
\* in pairwise distinct bins and number at most the cap.
C17_OnePerBin ==
  calc.pc = "selected" =>
    \A list \in {calc.binCandidates, calc.candidates} :
      /\ Len(list) <= MAX_DETOURS
      /\ DistinctBins(list, calc.mainPath)

\* C18: from 35 corridor-filtered places the selector returns exactly 30
\* candidates, each from a bin of its own and each the closest to the route
\* of its bin.
C18_ThirtyOfThirtyFive ==
  (calc.pc = "selected" /\ Len(calc.onRouteFoodPlaces) = 35) =>
    \A list \in {calc.binCandidates, calc.candidates} :
      /\ Len(list) = 30
      /\ DistinctBins(list, calc.mainPath)
      /\ ClosestOfBin(list, calc.onRouteFoodPlaces, calc.mainPath)

\* C19: the binned selector puts every place into the bin
\* floor(alongKm / binWidth), clamped, and the place a bin ends up with is
\* one of the given places of that bin with the smallest offset, the first
\* of them in the given order; every bin that was given a place ends up
\* with one, and the candidates are the places of the bins.
C19_BinKeepsClosest ==
  calc.pc \in {"binned", "selected"} =>
    LET given == calc.onRouteFoodPlaces
        path  == calc.mainPath
    IN
    /\ \A b \in 0..(MAX_DETOURS - 1) :
         IF \E j \in 1..Len(given) : BinOf(given[j], path) = b
         THEN /\ Len(calc.bins[b]) = 1
              /\ calc.bins[b][1] \in Range(given)
              /\ BinOf(calc.bins[b][1], path) = b
              /\ \A j \in 1..Len(given) :
                   BinOf(given[j], path) = b =>
                     \/ OffsetM(calc.bins[b][1], path) < OffsetM(given[j], path)
                     \/ /\ OffsetM(calc.bins[b][1], path) = OffsetM(given[j], path)
                        /\ IndexIn(given, calc.bins[b][1]) <= j
         ELSE calc.bins[b] = <<>>
    /\ Range(calc.binCandidates) = UNION {Range(calc.bins[b]) : b \in 0..(MAX_DETOURS - 1)}
    /\ ClosestOfBin(calc.binCandidates, given, path)

\* a bin was given several places at the smallest offset and kept the first
\* of them, and the last bin took a place at the very end of the route
C19_Witness ==
  /\ calc.pc = "binned"
  /\ \E b \in 0..(MAX_DETOURS - 1) : \E i, j \in 1..Len(calc.onRouteFoodPlaces) :
       /\ i < j
       /\ calc.bins[b] = <<calc.onRouteFoodPlaces[i]>>
       /\ BinOf(calc.onRouteFoodPlaces[j], calc.mainPath) = b
       /\ OffsetM(calc.onRouteFoodPlaces[j], calc.mainPath)
            = OffsetM(calc.onRouteFoodPlaces[i], calc.mainPath)
  /\ \E h \in Range(calc.bins[MAX_DETOURS - 1]) :
       AlongM(h, calc.mainPath) = totalM(calc.mainPath.points)
  /\ Len(calc.binCandidates) = MAX_DETOURS

\* the length of the segments a, a + 1, .., b of a polyline (segment j runs
\* from vertex j to vertex j + 1)
RECURSIVE SegSum(_, _, _)
SegSum(points, a, b) ==
  IF a > b THEN 0
  ELSE Abs(points[b + 1] - points[b]) + SegSum(points, a, b - 1)

\* C21: walking the segments in order, the sampler emits the vertex that
\* trails a segment (its start) exactly when that segment is the first one,
\* or when the lengths accumulated since the previous emission, this
\* segment included, reach the spacing; accumulation restarts from zero
\* after every emission.
C21_SamplerWalk ==
  (calc.pc = "sampled" /\ Len(calc.mainPath) >= 2) =>
    LET points  == calc.mainPath
        out     == calc.sampledCoords
        emitted == {out[j] : j \in 1..(Len(out) - 1)}
        prev(i) == CHOOSE e \in emitted :
                     e < i /\ \A f \in emitted : f < i => f <= e
    IN  /\ emitted \subseteq 1..(Len(points) - 1)
        /\ \A i \in 1..(Len(points) - 1) :
             i \in emitted <=>
               \/ i = 1
               \/ SegSum(points, prev(i) + 1, i) >= calc.everyKm

\* an interior vertex was emitted after two segments that are each shorter
\* than the spacing, and a vertex was passed over although the route up to
\* it is longer than the spacing: the accumulator had restarted
C21_Witness ==
  /\ calc.pc = "sampled"
  /\ Len(calc.mainPath) = 4
  /\ calc.sampledCoords = <<1, 3, 4>>
  /\ SegSum(calc.mainPath, 2, 2) < calc.everyKm
  /\ SegSum(calc.mainPath, 3, 3) < calc.everyKm
  /\ SegSum(calc.mainPath, 1, 2) >= calc.everyKm

\* the price rule of the popup for a place's price level (-1: none) and the
\* two bounds (-1: not set)
PriceAdmits(lvl, minBound, maxBound) ==
  IF lvl = -1
  THEN minBound = -1 /\ maxBound = -1
  ELSE (minBound = -1 \/ lvl >= minBound) /\ (maxBound = -1 \/ lvl <= maxBound)

\* the bound a price <select> stands for
BoundOf(value) ==
  IF value = "" THEN -1
  ELSE CHOOSE n \in 0..4 : value = <<"0", "1", "2", "3", "4">>[n + 1]

\* the results that match the keyword selected in the popup
MatchingKeyword ==
  {j \in 1..Len(detourOptions) : matchesCuisine(detourOptions[j], calc.uiCuisine)}

\* C22: a result whose place has no price level is visible only when both
\* price bounds are empty; a result with a price level is visible exactly
\* when the level is >= the minimum (when set) and <= the maximum (when
\* set), both inclusive.
C22_PriceFilter ==
  calc.pc = "view" =>
    \A j \in MatchingKeyword :
      (\E v \in 1..Len(calc.visibleOptions) :
          calc.visibleOptions[v] = detourOptions[j])
        <=> PriceAdmits(poi[detourOptions[j].place].price_level,
                        BoundOf(calc.uiMinPrice), BoundOf(calc.uiMaxPrice))

\* with a bound set, a result without a price level is hidden, and results
\* at a level equal to the minimum and to the maximum are shown
C22_Witness ==
  /\ calc.pc = "view"
  /\ calc.uiMinPrice = "0"
  /\ calc.uiMaxPrice = "2"
  /\ \E j \in MatchingKeyword :
       /\ poi[detourOptions[j].place].price_level = -1
       /\ detourOptions[j] \notin Range(calc.visibleOptions)
  /\ \E v \in 1..Len(calc.visibleOptions) :
       poi[calc.visibleOptions[v].place].price_level = 0
  /\ \E v \in 1..Len(calc.visibleOptions) :
       poi[calc.visibleOptions[v].place].price_level = 2

\* C23: the displayed list is the result set restricted to the entries
\* that pass the keyword and the price filter, in the order they have in
\* the result set.
C23_VisibleIsSublist ==
  calc.pc = "view" =>
    calc.visibleOptions =
      SelectSeq(detourOptions,
                LAMBDA p : /\ matchesCuisine(p, calc.uiCuisine)
                           /\ PriceAdmits(poi[p.place].price_level,
                                          BoundOf(calc.uiMinPrice),
                                          BoundOf(calc.uiMaxPrice)))

\* the list shows two results with equal added and total time, in the
\* order of the result set and not in the order of their places, while
\* another result is filtered out
C23_Witness ==
  /\ calc.pc = "view"
  /\ Len(calc.visibleOptions) < Len(detourOptions)
  /\ \E v \in 1..(Len(calc.visibleOptions) - 1) :
       /\ calc.visibleOptions[v].addedTime = calc.visibleOptions[v + 1].addedTime
       /\ calc.visibleOptions[v].totalTime = calc.visibleOptions[v + 1].totalTime
       /\ calc.visibleOptions[v].place > calc.visibleOptions[v + 1].place

\* C24: the count shown for every keyword of the vocabulary is the length
\* of the list that selecting the keyword would show under the current
\* price filter, and the count of "all cuisines" is the number of results
\* the price filter admits.
C24_LiveCounts ==
  calc.pc = "view" =>
    /\ \A kw \in CuisineOptions :
         calc.cuisineCounts[kw]
           = Len(visibleOptions(detourOptions, kw, calc.uiMinPrice, calc.uiMaxPrice))
    /\ calc.cuisineCounts[<<>>]
         = Cardinality({j \in 1..Len(detourOptions) :
                          PriceAdmits(poi[detourOptions[j].place].price_level,
                                      BoundOf(calc.uiMinPrice),
                                      BoundOf(calc.uiMaxPrice))})

\* a keyword is counted for a result that matches it by its types only,
\* across two types, while the price filter hides another result
C24_Witness ==
  /\ calc.pc = "view"
  /\ calc.cuisineCounts[FastFood] = 1
  /\ calc.cuisineCounts[Cafe] = 1
  /\ calc.cuisineCounts[<<>>] < Len(detourOptions)

\* the integer nearest to num / den (a half rounds up), den > 0
Rounded(num, den) ==
  CHOOSE r \in 0..(num + 1) : 2 * den * r - den <= 2 * num /\ 2 * num < 2 * den * r + den

\* C25: while a pass is scoring, every candidate that settles raises the
\* completed count by one, to the number of candidates of the pass settled
\* so far and never beyond the total; the estimate then is
\* round(elapsed / completed * (total - completed)); and when the pass ends
\* all its candidates have settled.
C25_Progress ==
  [][\A p \in Passes :
       (pass[p].pc = "scoring" /\ pass'[p].settled # pass[p].settled) =>
         LET total     == Len(pass[p].candidates)
             completed == Cardinality(pass'[p].settled)
         IN  /\ Cardinality(pass[p].settled) + 1 = completed
             /\ completed <= total
             /\ IF pass'[p].pc = "scoring"
                THEN /\ loadingDetours'.total = total
                     /\ loadingDetours'.done = loadingDetours.done + 1
                     /\ loadingDetours'.done = completed
                     /\ loadingDetours'.etaSec
                          = Rounded(pass'[p].elapsedMs * (total - completed),
                                    1000 * completed)
                ELSE completed = total]_vars

\* C26: whenever load-more issues a detour request, the place requested is
\* one of the discovered places and no entry of the result set has its id,
\* and one invocation sets out to request at most 10 places.
C26_LoadMoreOnlyUnprocessed ==
  [][(lm'.pc = "run" /\ (lm.pc # "run" \/ lm'.queue # lm.queue)) =>
       LET id == Head(lm'.queue) IN
       /\ \E j \in 1..Len(allPlaces') : place_id(allPlaces'[j]) = place_id(id)
       /\ \A j \in 1..Len(detourOptions') :
            place_id(detourOptions'[j].place) # place_id(id)
       /\ lm.pc # "run" => Len(lm'.queue) <= LOAD_MORE_SLICE]_vars

\* the number a string is the decimal numeral of (an optional minus sign
\* and digits, nothing else); -1 when the string is no such numeral
RECURSIVE NumeralValue(_, _)
NumeralValue(str, n) ==
  IF n = 0 THEN 0
  ELSE 10 * NumeralValue(str, n - 1) + DigitValue(str[n])

IsNumeral(str) ==
  LET body == IF str # <<>> /\ Head(str) = "-" THEN Tail(str) ELSE str
  IN  body # <<>> /\ \A i \in 1..Len(body) : IsDigit(body[i])

RequestedRadius(str) ==
  IF Head(str) = "-" THEN 0 - NumeralValue(Tail(str), Len(str) - 1)
  ELSE NumeralValue(str, Len(str))

\* C27: a request the proxy passes upstream carries exactly one of radius
\* and rankby=distance: rankby=distance and no radius when that ranking was
\* requested, and otherwise the requested radius clamped to 500..8000 m,
\* or 5000 m when the radius is absent or not a number.
C27_RadiusOrRankby ==
  calc.pc \in {"fetching", "responded"} /\ calc.hasKey /\ calc.hasLatLng =>
    /\ Cardinality(calc.sent) = 1
    /\ IF calc.rankby = <<"d", "i", "s", "t", "a", "n", "c", "e">>
       THEN calc.sent = {[name |-> "rankby", value |-> "distance"]}
       ELSE calc.rankby \in {<<>>, <<"p", "r", "o", "m", "i", "n", "e", "n", "c", "e">>}
              => calc.sent =
                   {[name  |-> "radius",
                     value |-> IF IsNumeral(calc.radius)
                               THEN Max(500, Min(8000, RequestedRadius(calc.radius)))
                               ELSE 5000]}

\* the integer a string begins with: blanks, an optional sign, and the
\* longest run of digits that follows (first .. last); none when no digit
\* stands there
LeadingInteger(str) ==
  LET blanks == CHOOSE b \in 0..Len(str) :
                  /\ \A i \in 1..b : str[i] = " "
                  /\ b < Len(str) => str[b + 1] # " "
      signed == blanks < Len(str) /\ str[blanks + 1] \in {"-", "+"}
      first  == IF signed THEN blanks + 2 ELSE blanks + 1
      last   == CHOOSE e \in (first - 1)..Len(str) :
                  /\ \A i \in first..e : IsDigit(str[i])
                  /\ e < Len(str) => ~IsDigit(str[e + 1])
      digits == SubSeq(str, first, last)
  IN  [none  |-> last < first,
       value |-> IF signed /\ str[blanks + 1] = "-"
                 THEN 0 - NumeralValue(digits, Len(digits))
                 ELSE NumeralValue(digits, Len(digits))]

\* C27, amended: a request the proxy passes upstream carries exactly one
\* of radius and rankby=distance: rankby=distance and no radius when that
\* ranking was requested, and otherwise the integer the requested radius
\* begins with, clamped to 500..8000 m, or 5000 m when the radius is absent
\* or does not begin with an integer.
C27_RadiusPrefixOrRankby ==
  calc.pc \in {"fetching", "responded"} /\ calc.hasKey /\ calc.hasLatLng =>
    /\ Cardinality(calc.sent) = 1
    /\ IF calc.rankby = <<"d", "i", "s", "t", "a", "n", "c", "e">>
       THEN calc.sent = {[name |-> "rankby", value |-> "distance"]}
       ELSE calc.rankby \in {<<>>, <<"p", "r", "o", "m", "i", "n", "e", "n", "c", "e">>}
              => calc.sent =
                   {[name  |-> "radius",
                     value |-> IF LeadingInteger(calc.radius).none
                               THEN 5000
                               ELSE Max(500, Min(8000,
                                      LeadingInteger(calc.radius).value))]}

\* a radius of "12abc" went upstream as 500
C27_Witness ==
  /\ calc.pc = "fetching"
  /\ calc.radius = <<"1", "2", "a", "b", "c">>
  /\ calc.sent = {[name |-> "radius", value |-> 500]}

\* C28: when load-more is invoked after the pass of the current
\* destination has finished and no other pass is running, the polyline it
\* filters and orders the unprocessed places against is the baseline
\* polyline that pass used.
C28_LoadMoreUsesBaseline ==
  [][\A q \in Passes :
       (/\ lmCount' # lmCount
        /\ Newest(q)
        /\ pass[q].pc = "done"
        /\ pass[q].loc = destination
        /\ \A p \in Passes : ~Running(p))
         => bestRouteCoords = pass[q].mainPath]_vars

\* C29: the indicator turns active when a pass starts with a known
\* position; while the newest pass is running, a step that is not its own
\* (a completion or the end of an older pass) leaves the indicator and its
\* counters as they are; and once no pass is running (none having died on
\* its baseline) the indicator is inactive.
C29_LoadingFollowsNewestPass ==
  [][/\ \A q \in Passes :
          (pass[q].pc = "idle" /\ pass'[q].pc = "baseline")
            => loadingDetours'.active
     /\ \A q \in Passes :
          (/\ Newest(q) /\ Running(q)
           /\ pass'[q] = pass[q]
           /\ \A p \in Passes : p > q => pass'[p].pc = "idle")
            => loadingDetours' = loadingDetours
     /\ (\A p \in Passes : ~Running(p)' /\ pass'[p].pc # "crashed")
          => ~loadingDetours'.active]_vars

\* C30: while navigation is active its step index satisfies
\* 0 <= current < number of steps: "Go" starts navigation only with at
\* least one step and at index 0, "Skip step" moves to the next step but
\* never past the last one, and a fix within the threshold of the end of
\* the last step ends navigation instead of advancing the index.
C30_StepIndexInRange ==
  [][LET n == calc.navigation
         m == calc'.navigation
         e == calc'.event
     IN  /\ m # Null => m.current \in 0..(Len(m.steps) - 1)
         /\ (e.kind = "go" /\ m # Null) =>
              m.current = 0 /\ Len(m.steps) >= 1
         /\ (e.kind = "go" /\ m = Null) =>
              buildStepsFromRoute(calc.confirmRoute.legs) = <<>>
         /\ e.kind = "skip" =>
              /\ m # Null /\ m.steps = n.steps
              /\ m.current = IF n.current = Len(n.steps) - 1
                             THEN n.current ELSE n.current + 1
         /\ (/\ e.kind = "watch" /\ n # Null
             /\ withinThreshold(calc'.here, n.steps[n.current + 1].end)) =>
              IF n.current = Len(n.steps) - 1 THEN m = Null
              ELSE m # Null /\ m.current = n.current + 1
    ]_vars

\* a fix near the end of the last of several steps has ended navigation
C30_Witness ==
  /\ calc.event.kind = "watch"
  /\ calc.event.of >= 2
  /\ calc.event.from = calc.event.of - 1
  /\ calc.navigation = Null

\* C20: for a polyline of at least 2 vertices and any spacing the sampler
\* returns at least 2 vertices in route order, the first vertex first and
\* the final vertex last.
C20_SamplerEnds ==
  (calc.pc = "sampled" /\ Len(calc.mainPath) >= 2) =>
    LET out == calc.sampledCoords IN
    /\ Len(out) >= 2
    /\ out[1] = 1
    /\ out[Len(out)] = Len(calc.mainPath)
    /\ \A j \in 1..(Len(out) - 1) : out[j] < out[j + 1]

\* the last segment is shorter than the spacing and the final vertex is
\* sampled all the same
C20_Witness ==
  /\ calc.pc = "sampled"
  /\ Len(calc.mainPath) >= 3
  /\ calc.mainPath[Len(calc.mainPath)] - calc.mainPath[Len(calc.mainPath) - 1]
       < calc.everyKm
  /\ calc.sampledCoords[Len(calc.sampledCoords)] = Len(calc.mainPath)
  /\ Len(calc.sampledCoords) < Len(calc.mainPath)

====
